---- MODULE Spec2Model ----
(***************************************************************************)
(* Model of absfs/osfs: the path grammar, the native translator, the path  *)
(* resolver of FileSystem and the working directory of each handle.        *)
(*                                                                         *)
(* A Go string is a sequence of one-character strings, so that indexing    *)
(* (path[1]), slicing (path[2:]) and concatenation are modelled as the     *)
(* code performs them.  Index i of the Go code is index i+1 here.          *)
(* The package is built either for the drive-letter family (path_windows)  *)
(* or for the other family (path_unix); the variable family records which  *)
(* build is running and never changes.                                     *)
(***************************************************************************)
EXTENDS Integers, Sequences, FiniteSets, TLC

VARIABLES
    family,   \* "windows" or "unix": the build
    cwd,      \* cwd[h]: FileSystem.cwd of handle h, a canonical path
    last,     \* the last call made: operation, handle, inputs, results
    rd        \* the readDirOptimized call in progress, if any

vars == <<family, cwd, last, rd>>

(***************************************************************************)
(* Bounds                                                                  *)
(***************************************************************************)
\* longest input string given to a pure path function
MaxLen == 4
\* longest argument of a FileSystem method
MaxName == 2
\* longest working directory a handle is followed to
MaxCwd == 5

Families == {"windows", "unix"}
Handles == {"fs1", "fs2"}

\* characters of the inputs of the pure path functions
Alphabet == {"/", "\\", ":", "c", "C", "1", "."}
\* characters of the arguments of FileSystem methods (canonical paths)
NameAlphabet == {"/", "c", "d"}

Strings(alphabet, n) == UNION {[1..k -> alphabet] : k \in 0..n}

Paths == Strings(Alphabet, MaxLen)

(***************************************************************************)
(* Characters and strings                                                  *)
(***************************************************************************)
LowerAlphabet ==
    <<"a", "b", "c", "d", "e", "f", "g", "h", "i", "j", "k", "l", "m",
      "n", "o", "p", "q", "r", "s", "t", "u", "v", "w", "x", "y", "z">>
UpperAlphabet ==
    <<"A", "B", "C", "D", "E", "F", "G", "H", "I", "J", "K", "L", "M",
      "N", "O", "P", "Q", "R", "S", "T", "U", "V", "W", "X", "Y", "Z">>

\* the ASCII letters
LowerLetters == {LowerAlphabet[i] : i \in DOMAIN LowerAlphabet}
UpperLetters == {UpperAlphabet[i] : i \in DOMAIN UpperAlphabet}

\* Bytes above 0x7F, written by their value.  As a rune, 0xC9 is U+00C9 (an
\* uppercase letter), 0xE9 is U+00E9 (its lowercase) and 0xD7 is U+00D7 (the
\* multiplication sign, no letter).  In UTF-8, U+00C9 is the two bytes 0xC3
\* 0x89 and U+00E9 the two bytes 0xC3 0xA9; 0x89 and 0xA9 occur only there.
Latin1Letters == {"0xC9", "0xE9"}
HighBytes == {"0xC9", "0xE9", "0xD7", "0xC3", "0x89", "0xA9", "0x97"}

\* the NUL character, and the characters below 32 of the model
NUL == "NUL"
ControlChars == {NUL, "\t", "0x1F"}

\* unicode.IsLetter(rune(b)) of a byte b
IsLetter(ch) == ch \in LowerLetters \cup UpperLetters \cup Latin1Letters

\* string(rune(b)) of a byte b: the UTF-8 encoding of the code point b
RuneString(ch) ==
    CASE ch = "0xC9" -> <<"0xC3", "0x89">>
      [] ch = "0xE9" -> <<"0xC3", "0xA9">>
      [] ch = "0xD7" -> <<"0xC3", "0x97">>
      [] OTHER -> <<ch>>

IndexOfUpper == [ch \in UpperLetters |-> CHOOSE i \in DOMAIN UpperAlphabet : UpperAlphabet[i] = ch]
IndexOfLower == [ch \in LowerLetters |-> CHOOSE i \in DOMAIN LowerAlphabet : LowerAlphabet[i] = ch]

ToLowerChar(ch) ==
    IF ch \in UpperLetters THEN LowerAlphabet[IndexOfUpper[ch]]
    ELSE IF ch = "0x89" THEN "0xA9"
    ELSE ch

ToUpperChar(ch) ==
    IF ch \in LowerLetters THEN UpperAlphabet[IndexOfLower[ch]]
    ELSE IF ch = "0xA9" THEN "0x89"
    ELSE ch

\* strings.ToLower / strings.ToUpper
ToLower(s) == [i \in 1..Len(s) |-> ToLowerChar(s[i])]
ToUpper(s) == [i \in 1..Len(s) |-> ToUpperChar(s[i])]

\* s[n:] of Go, with n counted from 0
From(s, n) == SubSeq(s, n + 1, Len(s))

\* filepath.FromSlash and filepath.ToSlash of a drive-letter build
FromSlash(s) == [i \in 1..Len(s) |-> IF s[i] = "/" THEN "\\" ELSE s[i]]
ToSlash(s) == [i \in 1..Len(s) |-> IF s[i] = "\\" THEN "/" ELSE s[i]]

(***************************************************************************)
(* Path grammar, drive-letter build (path_windows)                         *)
(***************************************************************************)
isUNC(path) == Len(path) >= 2 /\ path[1] = "/" /\ path[2] = "/"

\* splitDrive with the rest cut one character early (path[1:])
splitDriveWinOffByOne(path) ==
    IF path = <<>> THEN <<<<>>, <<>>>>
    ELSE IF isUNC(path) THEN <<<<>>, path>>
    ELSE IF Len(path) >= 2 /\ path[1] = "/"
              /\ ( (Len(path) = 2 /\ IsLetter(path[2]))
                   \/ (Len(path) > 2 /\ path[3] = "/" /\ IsLetter(path[2])) )
         THEN IF Len(path) = 2
              THEN <<ToLower(RuneString(path[2])), <<"/">>>>
              ELSE <<ToLower(RuneString(path[2])), From(path, 1)>>
    ELSE <<<<>>, path>>

splitDriveWin(path) ==
    IF path = <<>> THEN <<<<>>, <<>>>>
    ELSE IF isUNC(path) THEN <<<<>>, path>>
    ELSE IF Len(path) >= 2 /\ path[1] = "/"
              /\ ( (Len(path) = 2 /\ IsLetter(path[2]))
                   \/ (Len(path) > 2 /\ path[3] = "/" /\ IsLetter(path[2])) )
         THEN IF Len(path) = 2
              THEN <<ToLower(RuneString(path[2])), <<"/">>>>
              ELSE <<ToLower(RuneString(path[2])), From(path, 2)>>
    ELSE <<<<>>, path>>

joinDriveWin(drive, path) ==
    IF drive = <<>> THEN path
    ELSE LET rooted == IF path = <<>> \/ path[1] # "/" THEN <<"/">> \o path ELSE path
         IN <<"/">> \o ToLower(drive) \o rooted

\* setDrive that joins the drive to the path as it is, an old drive included
setDriveWinNoStrip(path, drive) ==
    IF drive = <<>> THEN splitDriveWin(path)[2]
    ELSE joinDriveWin(drive, path)

\* with an empty drive: StripDrive(path), the rest of the build's splitDrive
setDriveWin(path, drive) ==
    IF drive = <<>> THEN splitDriveWin(path)[2]
    ELSE joinDriveWin(drive, splitDriveWin(path)[2])

(***************************************************************************)
(* Native translator, drive-letter build (path_windows)                    *)
(***************************************************************************)
\* toNativeUNC that leaves the slashes after the first two as they are
toNativeUNCKeepSlashes(path) ==
    IF Len(path) < 2 \/ path[1] # "/" \/ path[2] # "/" THEN FromSlash(path)
    ELSE <<"\\", "\\">> \o From(path, 2)

toNativeUNC(path) ==
    IF Len(path) < 2 \/ path[1] # "/" \/ path[2] # "/" THEN FromSlash(path)
    ELSE <<"\\", "\\">> \o FromSlash(From(path, 2))

\* toNative that leaves the drive letter in the case it has
toNativeWinKeepCase(path) ==
    IF path = <<>> THEN <<>>
    ELSE IF isUNC(path) THEN toNativeUNC(path)
    ELSE IF splitDriveWin(path)[1] # <<>>
         THEN splitDriveWin(path)[1] \o <<":">> \o FromSlash(splitDriveWin(path)[2])
    ELSE FromSlash(path)

toNativeWin(path) ==
    IF path = <<>> THEN <<>>
    ELSE IF isUNC(path) THEN toNativeUNC(path)
    ELSE IF splitDriveWin(path)[1] # <<>>
         THEN ToUpper(splitDriveWin(path)[1]) \o <<":">> \o FromSlash(splitDriveWin(path)[2])
    ELSE FromSlash(path)

fromNativeUNC(path) ==
    IF Len(path) < 2 \/ path[1] # "\\" \/ path[2] # "\\" THEN ToSlash(path)
    ELSE <<"/", "/">> \o ToSlash(From(path, 2))

\* fromNative that leaves the drive letter in the case it has
fromNativeWinKeepCase(path) ==
    IF path = <<>> THEN <<>>
    ELSE IF Len(path) >= 2 /\ path[1] = "\\" /\ path[2] = "\\" THEN fromNativeUNC(path)
    ELSE IF Len(path) >= 2 /\ path[2] = ":"
         THEN LET rest0 == ToSlash(IF Len(path) > 2 THEN From(path, 2) ELSE <<>>)
                  rest == IF rest0 = <<>> \/ rest0[1] # "/" THEN <<"/">> \o rest0 ELSE rest0
              IN <<"/", path[1]>> \o rest
    ELSE ToSlash(path)

fromNativeWin(path) ==
    IF path = <<>> THEN <<>>
    ELSE IF Len(path) >= 2 /\ path[1] = "\\" /\ path[2] = "\\" THEN fromNativeUNC(path)
    ELSE IF Len(path) >= 2 /\ path[2] = ":"
         THEN LET drive == ToLower(RuneString(path[1]))
                  rest0 == ToSlash(IF Len(path) > 2 THEN From(path, 2) ELSE <<>>)
                  rest == IF rest0 = <<>> \/ rest0[1] # "/" THEN <<"/">> \o rest0 ELSE rest0
              IN <<"/">> \o drive \o rest
    ELSE ToSlash(path)

(***************************************************************************)
(* The other build (path_unix)                                             *)
(***************************************************************************)
\* toNative of the other build converting separators as the drive-letter build does
toNativeUnixBackslash(path) == FromSlash(path)

toNativeUnix(path) == path
fromNativeUnix(path) == path
splitDriveUnix(path) == <<<<>>, path>>
joinDriveUnix(drive, path) == path
setDriveUnix(path, drive) == path

(***************************************************************************)
(* The functions of the running build                                      *)
(***************************************************************************)
toNative(path) == IF family = "windows" THEN toNativeWin(path) ELSE toNativeUnix(path)
fromNative(path) == IF family = "windows" THEN fromNativeWin(path) ELSE fromNativeUnix(path)
splitDrive(path) == IF family = "windows" THEN splitDriveWin(path) ELSE splitDriveUnix(path)
joinDrive(drive, path) ==
    IF family = "windows" THEN joinDriveWin(drive, path) ELSE joinDriveUnix(drive, path)
setDrive(path, drive) ==
    IF family = "windows" THEN setDriveWin(path, drive) ELSE setDriveUnix(path, drive)
GetDrive(path) == splitDrive(path)[1]
StripDrive(path) == splitDrive(path)[2]

(***************************************************************************)
(* path.IsAbs, path.Clean and path.Join of the Go library, as toNativePath *)
(* uses them: always on forward slashes, whatever the build.               *)
(***************************************************************************)
IsAbs(path) == Len(path) > 0 /\ path[1] = "/"

\* the components of path between slashes, empty ones included
RECURSIVE SplitSlash(_)
SplitSlash(path) ==
    IF \A i \in 1..Len(path) : path[i] # "/" THEN <<path>>
    ELSE LET k == CHOOSE i \in 1..Len(path) :
                      path[i] = "/" /\ \A j \in 1..(i - 1) : path[j] # "/"
         IN <<SubSeq(path, 1, k - 1)>> \o SplitSlash(From(path, k))

\* Clean's pass over the components: "." and empty ones are dropped, ".."
\* removes the component before it, is dropped at the root and is kept at
\* the start of a path that is not rooted
RECURSIVE CleanComps(_, _, _)
CleanComps(comps, acc, rooted) ==
    IF comps = <<>> THEN acc
    ELSE LET c == Head(comps)
             next == IF c = <<>> \/ c = <<".">> THEN acc
                     ELSE IF c = <<".", ".">>
                          THEN IF acc # <<>> /\ acc[Len(acc)] # <<".", ".">>
                               THEN SubSeq(acc, 1, Len(acc) - 1)
                               ELSE IF rooted THEN acc ELSE Append(acc, c)
                     ELSE Append(acc, c)
         IN CleanComps(Tail(comps), next, rooted)

RECURSIVE JoinSlash(_)
JoinSlash(comps) ==
    IF comps = <<>> THEN <<>>
    ELSE IF Len(comps) = 1 THEN comps[1]
    ELSE comps[1] \o <<"/">> \o JoinSlash(Tail(comps))

Clean(path) ==
    IF path = <<>> THEN <<".">>
    ELSE LET rooted == path[1] = "/"
             kept == CleanComps(SplitSlash(path), <<>>, rooted)
         IN IF rooted THEN <<"/">> \o JoinSlash(kept)
            ELSE IF kept = <<>> THEN <<".">> ELSE JoinSlash(kept)

\* path.Join(a, b): the non-empty elements joined by a slash, then cleaned
Join(a, b) ==
    IF a = <<>> /\ b = <<>> THEN <<>>
    ELSE IF a = <<>> THEN Clean(b)
    ELSE IF b = <<>> THEN Clean(a)
    ELSE Clean(a \o <<"/">> \o b)

(***************************************************************************)
(* UNC paths and validation, both builds                                   *)
(***************************************************************************)
\* strings.Index(s, "/"): the Go index of the first slash, -1 without one
IndexSlash(s) ==
    IF \A i \in 1..Len(s) : s[i] # "/" THEN -1
    ELSE (CHOOSE i \in 1..Len(s) : s[i] = "/" /\ \A j \in 1..(i - 1) : s[j] # "/") - 1

\* strings.Index(s, "."), likewise
IndexDot(s) ==
    IF \A i \in 1..Len(s) : s[i] # "." THEN -1
    ELSE (CHOOSE i \in 1..Len(s) : s[i] = "." /\ \A j \in 1..(i - 1) : s[j] # ".") - 1

splitUNCWin(path) ==
    IF ~isUNC(path) THEN <<<<>>, <<>>, <<>>>>
    ELSE LET remaining == From(path, 2)
             serverEnd == IndexSlash(remaining)
         IN IF serverEnd = -1 THEN <<remaining, <<>>, <<>>>>
            ELSE LET server == SubSeq(remaining, 1, serverEnd)
                     afterServer == From(remaining, serverEnd + 1)
                     shareEnd == IndexSlash(afterServer)
                 IN IF shareEnd = -1 THEN <<server, afterServer, <<"/">>>>
                    ELSE LET rest == From(afterServer, shareEnd)
                         IN <<server, SubSeq(afterServer, 1, shareEnd),
                              IF rest = <<>> THEN <<"/">> ELSE rest>>

\* isUNC that asks for a server after the two slashes
isUNCUnixNeedsServer(path) ==
    Len(path) >= 3 /\ path[1] = "/" /\ path[2] = "/"

isUNCUnix(path) == Len(path) >= 2 /\ path[1] = "/" /\ path[2] = "/"

\* splitUNC whose rest begins after the slash that follows the share
splitUNCUnixRestAfterSlash(path) ==
    IF ~isUNCUnix(path) THEN <<<<>>, <<>>, <<>>>>
    ELSE LET remaining == From(path, 2)
             serverEnd == IndexSlash(remaining)
         IN IF serverEnd = -1 THEN <<remaining, <<>>, <<>>>>
            ELSE LET server == SubSeq(remaining, 1, serverEnd)
                     afterServer == From(remaining, serverEnd + 1)
                     shareEnd == IndexSlash(afterServer)
                 IN IF shareEnd = -1 THEN <<server, afterServer, <<"/">>>>
                    ELSE LET rest == From(afterServer, shareEnd + 1)
                         IN <<server, SubSeq(afterServer, 1, shareEnd),
                              IF rest = <<>> THEN <<"/">> ELSE rest>>

splitUNCUnix(path) ==
    IF ~isUNCUnix(path) THEN <<<<>>, <<>>, <<>>>>
    ELSE LET remaining == From(path, 2)
             serverEnd == IndexSlash(remaining)
         IN IF serverEnd = -1 THEN <<remaining, <<>>, <<>>>>
            ELSE LET server == SubSeq(remaining, 1, serverEnd)
                     afterServer == From(remaining, serverEnd + 1)
                     shareEnd == IndexSlash(afterServer)
                 IN IF shareEnd = -1 THEN <<server, afterServer, <<"/">>>>
                    ELSE LET rest == From(afterServer, shareEnd)
                         IN <<server, SubSeq(afterServer, 1, shareEnd),
                              IF rest = <<>> THEN <<"/">> ELSE rest>>

\* the keys of reservedNames
reservedNames ==
    {<<"c", "o", "n">>, <<"p", "r", "n">>, <<"a", "u", "x">>, <<"n", "u", "l">>}
        \cup {<<"c", "o", "m", d>> : d \in {"1", "2", "3", "4", "5", "6", "7", "8", "9"}}
        \cup {<<"l", "p", "t", d>> : d \in {"1", "2", "3", "4", "5", "6", "7", "8", "9"}}

invalidChars == {"<", ">", ":", "\"", "|", "?", "*"}

\* isReservedName that compares the base name in the case it is written in
isReservedNameWinCaseSensitive(name) ==
    IF name = <<>> THEN FALSE
    ELSE LET dot == IndexDot(name)
             baseName == IF dot # -1 THEN SubSeq(name, 1, dot) ELSE name
         IN baseName \in reservedNames

\* isReservedName that looks the whole name up, extension included
isReservedNameWinWholeName(name) ==
    IF name = <<>> THEN FALSE ELSE ToLower(name) \in reservedNames

isReservedNameWin(name) ==
    IF name = <<>> THEN FALSE
    ELSE LET dot == IndexDot(name)
             baseName == IF dot # -1 THEN SubSeq(name, 1, dot) ELSE name
         IN ToLower(baseName) \in reservedNames

isReservedNameUnix(name) == FALSE

\* the loop over the characters of a component: the error of the first
\* character that is invalid or a control character, "" without one
RECURSIVE CheckChars(_)
CheckChars(comp) ==
    IF comp = <<>> THEN ""
    ELSE IF Head(comp) \in invalidChars THEN "path contains invalid character"
    ELSE IF Head(comp) \in ControlChars THEN "path contains control character"
    ELSE CheckChars(Tail(comp))

\* the loop over the components: the error of the first that fails
RECURSIVE CheckComponents(_)
CheckComponents(components) ==
    IF components = <<>> THEN ""
    ELSE LET comp == Head(components)
         IN IF comp = <<>> THEN CheckComponents(Tail(components))
            ELSE IF isReservedNameWin(comp) THEN "path contains reserved name"
            ELSE IF CheckChars(comp) # "" THEN CheckChars(comp)
            ELSE IF comp[Len(comp)] = " " \/ comp[Len(comp)] = "."
                 THEN "path component has trailing space or period"
            ELSE CheckComponents(Tail(components))

\* validatePath; "" is the nil error
validatePathWin(path) ==
    IF path = <<>> THEN ""
    ELSE IF \E i \in 1..Len(path) : path[i] = NUL THEN "path contains null byte"
    ELSE CheckComponents(SplitSlash(path))

validatePathUnix(path) ==
    IF \E i \in 1..Len(path) : path[i] = NUL THEN "path contains null byte" ELSE ""

IsUNC(path) == IF family = "windows" THEN isUNC(path) ELSE isUNCUnix(path)
SplitUNC(path) == IF family = "windows" THEN splitUNCWin(path) ELSE splitUNCUnix(path)
ValidatePath(path) ==
    IF family = "windows" THEN validatePathWin(path) ELSE validatePathUnix(path)
isReservedName(name) ==
    IF family = "windows" THEN isReservedNameWin(name) ELSE isReservedNameUnix(name)

(***************************************************************************)
(* The path resolver of FileSystem                                         *)
(***************************************************************************)
isNativePathUnix(path) == FALSE

\* The drive-letter build's isNativePath: a path is taken as native when it
\* is unambiguously so, "C:\foo" or "\\server\share".
isNativePathWin(path) ==
    /\ Len(path) >= 2
    /\ \/ IsLetter(path[1]) /\ path[2] = ":"
       \/ path[1] = "\\" /\ path[2] = "\\"

isNativePath(path) ==
    IF family = "windows" THEN isNativePathWin(path) ELSE isNativePathUnix(path)

\* toNativePath that never gives a driveless absolute name the drive of wd
toNativePathNoSplice(wd, name) ==
    IF name = <<>> THEN toNative(wd)
    ELSE IF isNativePath(name) THEN name
    ELSE IF ~IsAbs(name) THEN toNative(Join(wd, name))
    ELSE toNative(name)

\* toNativePath that joins a relative name in native space, after translation
toNativePathNativeJoin(wd, name) ==
    IF name = <<>> THEN toNative(wd)
    ELSE IF isNativePath(name) THEN name
    ELSE IF ~IsAbs(name)
         THEN toNative(wd) \o toNative(<<"/">>) \o toNative(name)
    ELSE IF GetDrive(name) = <<>> /\ GetDrive(wd) # <<>>
         THEN toNative(setDrive(name, GetDrive(wd)))
    ELSE toNative(name)

\* fs.toNativePath(name) of a handle whose cwd is wd
toNativePath(wd, name) ==
    IF name = <<>> THEN toNative(wd)
    ELSE IF isNativePath(name) THEN name
    ELSE IF ~IsAbs(name) THEN toNative(Join(wd, name))
    ELSE IF GetDrive(name) = <<>> /\ GetDrive(wd) # <<>>
         THEN toNative(setDrive(name, GetDrive(wd)))
    ELSE toNative(name)

\* what os.Stat can answer for a native path
StatAnswers == {"error", "file", "dir"}

\* fs.isDir, given the answer of os.Stat
isDir(stat) == IF stat = "error" THEN FALSE ELSE stat = "dir"

(***************************************************************************)
(* Calls                                                                   *)
(***************************************************************************)
\* op: the function or method; h: the handle ("-" for a package function);
\* name: the path argument; aux: the second argument of a package function,
\* or the native path a method resolved name to, or the path an error of
\* readDirOptimized carries; stat: what os.Stat answered in Chdir, what
\* FindFirstFile answered when it failed ("" elsewhere); out: the results;
\* err: the error ("" for nil), for readDirOptimized the Op of the PathError
Call(op, h, name, aux, stat, out, err) ==
    [op |-> op, h |-> h, name |-> name, aux |-> aux, stat |-> stat,
     out |-> out, err |-> err]

NoCall == Call("none", "-", <<>>, <<>>, "", <<>>, "")

\* the state of a readDirOptimized call: where it is (pc), the directory, the
\* records delivered so far and in how many reads, the entries decoded so
\* far, the record in fd (drive-letter build), and how often the handle was
\* opened and closed; here no call has been made
NoRead ==
    [pc |-> "idle", path |-> <<>>, records |-> <<>>, blocks |-> 0,
     entries |-> <<>>, fd |-> <<>>, opens |-> 0, closes |-> 0, lstats |-> <<>>]

\* os.Getwd() at NewFS: an absolute, clean native path
OSGetwd ==
    IF family = "windows"
    THEN {<<"C", ":", "\\">>, <<"C", ":", "\\", "d">>, <<"\\", "\\", "c", "\\", "d">>}
    ELSE {<<"/">>, <<"/", "c">>}

\* arguments given to the methods of the first handle, and of the second
\* every short canonical path, then ".", "..", "../..", a drive root, a path
\* on a drive, an absolute path without a drive, UNC paths without and with
\* a share, and a native path
Names ==
    Strings(NameAlphabet, MaxName)
        \cup {<<".">>, <<".", ".">>, <<".", ".", "/", ".", ".">>,
              <<"/", "c", "/">>, <<"/", "d", "/", "c">>, <<"/", "c", "d">>,
              <<"/", "/", "c">>, <<"/", "/", "c", "/", "d">>,
              <<"c", ":", "\\">>}
OtherNames == {<<>>, <<"/">>, <<"d">>, <<".", ".">>}
NamesOf(h) == IF h = "fs1" THEN Names ELSE OtherNames

(***************************************************************************)
(* FileSystem: NewFS, Chdir, Getwd and the methods that resolve a path     *)
(***************************************************************************)
\* NewFS for every handle: cwd = FromNative(os.Getwd())
Init ==
    /\ family \in Families
    /\ cwd \in [Handles -> {fromNative(d) : d \in OSGetwd}]
    /\ last = NoCall
    /\ rd = NoRead

\* no call is in progress
Idle == last = NoCall

\* Chdir that stores the new directory before it checks it
ChdirStoreFirst ==
    /\ Idle
    /\ \E h \in Handles : \E name \in NamesOf(h) : \E stat \in StatAnswers :
        LET nativePath == toNativePath(cwd[h], name)
        IN /\ Len(fromNative(nativePath)) <= MaxCwd
           /\ cwd' = [cwd EXCEPT ![h] = fromNative(nativePath)]
           /\ last' = Call("Chdir", h, name, nativePath, stat, <<>>,
                           IF isDir(stat) THEN "" ELSE "not a directory")
           /\ UNCHANGED <<family, rd>>

\* Chdir that stores the native path, without FromNative
ChdirStoreNative ==
    /\ Idle
    /\ \E h \in Handles : \E name \in NamesOf(h) : \E stat \in StatAnswers :
        LET nativePath == toNativePath(cwd[h], name)
        IN IF ~isDir(stat)
           THEN /\ last' = Call("Chdir", h, name, nativePath, stat, <<>>, "not a directory")
                /\ UNCHANGED <<family, cwd, rd>>
           ELSE /\ Len(nativePath) <= MaxCwd
                /\ cwd' = [cwd EXCEPT ![h] = nativePath]
                /\ last' = Call("Chdir", h, name, nativePath, stat, <<>>, "")
                /\ UNCHANGED <<family, rd>>

\* Chdir on one working directory shared by every handle
ChdirShared ==
    /\ Idle
    /\ \E h \in Handles : \E name \in NamesOf(h) : \E stat \in StatAnswers :
        LET nativePath == toNativePath(cwd[h], name)
        IN IF ~isDir(stat)
           THEN /\ last' = Call("Chdir", h, name, nativePath, stat, <<>>, "not a directory")
                /\ UNCHANGED <<family, cwd, rd>>
           ELSE /\ Len(fromNative(nativePath)) <= MaxCwd
                /\ cwd' = [g \in Handles |-> fromNative(nativePath)]
                /\ last' = Call("Chdir", h, name, nativePath, stat, <<>>, "")
                /\ UNCHANGED <<family, rd>>

\* Chdir(name) on handle h: every handle, argument and answer of os.Stat
Chdir ==
    /\ Idle
    /\ \E h \in Handles : \E name \in NamesOf(h) : \E stat \in StatAnswers :
        LET nativePath == toNativePath(cwd[h], name)
        IN IF ~isDir(stat)
           THEN /\ last' = Call("Chdir", h, name, nativePath, stat, <<>>, "not a directory")
                /\ UNCHANGED <<family, cwd, rd>>
           ELSE /\ Len(fromNative(nativePath)) <= MaxCwd
                /\ cwd' = [cwd EXCEPT ![h] = fromNative(nativePath)]
                /\ last' = Call("Chdir", h, name, nativePath, stat, <<>>, "")
                /\ UNCHANGED <<family, rd>>

Getwd ==
    /\ Idle
    /\ \E h \in Handles : last' = Call("Getwd", h, <<>>, <<>>, "", <<cwd[h]>>, "")
    /\ UNCHANGED <<family, cwd, rd>>

\* a method that resolves name and hands the native path to the os package
PathMethod(op) ==
    /\ Idle
    /\ \E h \in Handles : \E name \in NamesOf(h) :
          last' = Call(op, h, name, toNativePath(cwd[h], name), "", <<>>, "")
    /\ UNCHANGED <<family, cwd, rd>>

Open == PathMethod("Open")
Stat == PathMethod("Stat")
ReadDir == PathMethod("ReadDir")

\* the caller has taken the results of the call; the next call can be made
Return ==
    /\ ~Idle
    /\ last' = NoCall
    /\ rd' = NoRead
    /\ UNCHANGED <<family, cwd>>

Next == Chdir \/ Getwd \/ Open \/ Stat \/ ReadDir \/ Return

Spec == Init /\ [][Next]_vars

(***************************************************************************)
(* The package functions applied to every short string                     *)
(***************************************************************************)
\* strings that are not valid UTF-8: a byte above 0x7F on its own
BytePaths ==
    UNION { { <<"/", b>>, <<"/", b, "/">>, <<"/", b, "/", "c">>, <<"/", b, "c">>,
              <<"/", "/", b>>, <<b>>, <<b, "/">> } : b \in {"0xC9", "0xE9", "0xD7"} }

\* UNC-shaped paths with a server, a share and a rest, and their neighbours
UNCPaths ==
    {
      <<"/", "/">>, <<"/", "/", "/">>, <<"/", "/", "c">>,
      <<"/", "/", "c", "/">>, <<"/", "/", "c", "/", "d">>,
      <<"/", "/", "c", "/", "d", "/">>,
      <<"/", "/", "c", "/", "d", "/", "c">>,
      <<"/", "/", "c", "/", "d", "/", "c", "/", "d">>,
      <<"/", "/", "c", "/", "d", "/", "/">>,
      <<"/", "/", "c", "/", "/", "d">>, <<"/", "/", "/", "c", "/", "d">>,
      <<"/", "/", "c", "d", "/", "d", "c", "/", "c", ".", "c">>,
      <<"/", "c", "/", "d", "/", "c">>, <<"c", "/", "/", "d", "/", "c">> }

\* the drives given to SetDrive
Drives == {<<>>, <<"c">>, <<"C">>, <<"d">>}

\* components given to ValidatePath: reserved names in several cases, with
\* and without an extension, names that only resemble them, names with an
\* invalid or a control character, with a trailing space or period
ValidateComponents ==
    {
      <<"c", "o", "n">>, <<"C", "O", "N">>, <<"C", "o", "n">>,
      <<"p", "r", "n">>, <<"A", "U", "X">>, <<"n", "u", "l">>,
      <<"N", "U", "L">>, <<"c", "o", "m", "1">>, <<"C", "O", "M", "9">>,
      <<"l", "p", "t", "1">>, <<"L", "P", "T", "9">>, <<"c", "o", "m", "0">>,
      <<"c", "o", "m">>, <<"c", "o", "n", "s">>, <<"c", "o", "m", "1", "0">>,
      <<"c", "o", "n", ".", "c">>, <<"C", "O", "N", ".", "t", "x", "t">>,
      <<"c", "o", "n", ".">>, <<".", "c", "o", "n">>,
      <<"c", ".", "c", "o", "n">>, <<"c", "o", "n", " ", "c">>, <<"c">>,
      <<"c", " ">>, <<"c", ".">>, <<".">>, <<".", ".">>, <<" ">>,
      <<" ", "c">>, <<"c", ".", "c">>, <<"c", "<">>, <<"<", "c">>, <<">">>,
      <<"c", ":", "c">>, <<"\"">>, <<"|">>, <<"?">>, <<"*">>,
      <<"c", "\t", "c">>, <<"\t">>, <<"c", NUL>>, <<NUL>>, <<"0x7F">> }

\* the paths given to ValidatePath
ValidateInputs ==
    Paths \cup ValidateComponents
        \cup {<<"/">> \o comp : comp \in ValidateComponents}
        \cup {<<"/", "c", "/">> \o comp : comp \in ValidateComponents}
        \cup {comp \o <<"/">> : comp \in ValidateComponents}
        \cup {comp \o <<"/", "c">> : comp \in ValidateComponents}
        \cup {<<"c", "o", "/">> \o comp : comp \in ValidateComponents}

InitPath ==
    /\ family \in Families
    /\ cwd = [h \in Handles |-> <<"/">>]
    /\ last = NoCall
    /\ rd = NoRead

ToNative ==
    /\ Idle
    /\ \E path \in Paths :
          last' = Call("ToNative", "-", path, <<>>, "", <<toNative(path)>>, "")
    /\ UNCHANGED <<family, cwd, rd>>

FromNative ==
    /\ Idle
    /\ \E path \in Paths :
          last' = Call("FromNative", "-", path, <<>>, "", <<fromNative(path)>>, "")
    /\ UNCHANGED <<family, cwd, rd>>

SplitDrive ==
    /\ Idle
    /\ \E path \in Paths \cup BytePaths :
          last' = Call("SplitDrive", "-", path, <<>>, "", splitDrive(path), "")
    /\ UNCHANGED <<family, cwd, rd>>

IsUNCCall ==
    /\ Idle
    /\ \E path \in Paths \cup UNCPaths :
          last' = Call("IsUNC", "-", path, <<>>, "", <<IsUNC(path)>>, "")
    /\ UNCHANGED <<family, cwd, rd>>

SplitUNCCall ==
    /\ Idle
    /\ \E path \in Paths \cup UNCPaths :
          last' = Call("SplitUNC", "-", path, <<>>, "", SplitUNC(path), "")
    /\ UNCHANGED <<family, cwd, rd>>

SetDrive ==
    /\ Idle
    /\ \E path \in Paths : \E drive \in Drives :
          last' = Call("SetDrive", "-", path, drive, "", <<setDrive(path, drive)>>, "")
    /\ UNCHANGED <<family, cwd, rd>>

ValidatePathCall ==
    /\ Idle
    /\ \E path \in ValidateInputs :
          last' = Call("ValidatePath", "-", path, <<>>, "", <<>>, ValidatePath(path))
    /\ UNCHANGED <<family, cwd, rd>>

\* the names given to IsReservedName: those of TestIsReservedName and more
ReservedInputs ==
    ValidateComponents \cup Paths \cup
    {
      <<>>,
      <<"C", "O", "N">>,
      <<"c", "o", "n">>,
      <<"C", "o", "n">>,
      <<"P", "R", "N">>,
      <<"A", "U", "X">>,
      <<"N", "U", "L">>,
      <<"C", "O", "M", "1">>,
      <<"C", "O", "M", "9">>,
      <<"L", "P", "T", "1">>,
      <<"L", "P", "T", "9">>,
      <<"C", "O", "N", ".", "t", "x", "t">>,
      <<"c", "o", "n", ".", "e", "x", "e">>,
      <<"c", "o", "n", "f", "i", "g">>,
      <<"C", "O", "N", "S", "O", "L", "E">>,
      <<"C", "O", "M", "1", "0">>,
      <<"c", "o", "n", ".">>,
      <<"c", ".", "c", "o", "n">> }

IsReservedNameCall ==
    /\ Idle
    /\ \E name \in ReservedInputs :
          last' = Call("IsReservedName", "-", name, <<>>, "", <<isReservedName(name)>>, "")
    /\ UNCHANGED <<family, cwd, rd>>

NextPath ==
    \/ ToNative \/ FromNative \/ SplitDrive \/ IsUNCCall \/ SplitUNCCall
    \/ SetDrive \/ ValidatePathCall \/ IsReservedNameCall \/ Return

SpecPath == InitPath /\ [][NextPath]_vars

(***************************************************************************)
(* Directory entries and sortDirEntries (readdir_linux, readdir_windows)   *)
(***************************************************************************)
\* the byte of a character, for the comparison of names
ByteOf(ch) ==
    CASE ch = "." -> 46
      [] ch = "B" -> 66
      [] ch = "a" -> 97
      [] ch = "b" -> 98
      [] ch = "c" -> 99
      [] ch = "d" -> 100
      [] ch = "e" -> 101
      [] ch = "f" -> 102
      [] ch = "g" -> 103
      [] ch = "h" -> 104
      [] ch = "i" -> 105
      [] ch = "j" -> 106
      [] ch = "k" -> 107

\* s < t of two Go strings: byte by byte, a proper prefix first
RECURSIVE Less(_, _)
Less(s, t) ==
    IF t = <<>> THEN FALSE
    ELSE IF s = <<>> THEN TRUE
    ELSE IF s[1] # t[1] THEN ByteOf(s[1]) < ByteOf(t[1])
    ELSE Less(Tail(s), Tail(t))

\* &dirEntry{name, typ, dirPath}
dirEntry(name, typ, dirPath) == [name |-> name, typ |-> typ, dirPath |-> dirPath]

\* entries[i], entries[j] = entries[j], entries[i], with Go's indices
Swap(entries, i, j) ==
    [entries EXCEPT ![i + 1] = entries[j + 1], ![j + 1] = entries[i + 1]]

\* the inner loop of the insertion sort, from j down
RECURSIVE InsertionInner(_, _)
InsertionInner(entries, j) ==
    IF j > 0 /\ Less(entries[j + 1].name, entries[j].name)
    THEN InsertionInner(Swap(entries, j, j - 1), j - 1)
    ELSE entries

\* the outer loop of the insertion sort, from i up to n
RECURSIVE InsertionSort(_, _, _)
InsertionSort(entries, i, n) ==
    IF i < n THEN InsertionSort(InsertionInner(entries, i), i + 1, n) ELSE entries

\* the partition loop of quicksort from j up to high; gives the entries and i
RECURSIVE Partition(_, _, _, _, _)
Partition(entries, pivot, i, j, high) ==
    IF j >= high THEN <<entries, i>>
    ELSE IF Less(entries[j + 1].name, pivot)
         THEN Partition(Swap(entries, i + 1, j), pivot, i + 1, j + 1, high)
         ELSE Partition(entries, pivot, i, j + 1, high)

RECURSIVE quicksort(_, _, _)
quicksort(entries, low, high) ==
    IF low >= high THEN entries
    ELSE LET part == Partition(entries, entries[high + 1].name, low - 1, low, high)
             i == part[2] + 1
             placed == Swap(part[1], i, high)
         IN quicksort(quicksort(placed, low, i - 1), i + 1, high)

\* the length from which sortDirEntries uses quicksort
QuicksortFrom == 20

\* sortDirEntries that returns the entries in the order it received them
sortDirEntriesUnsorted(entries) == entries

sortDirEntries(entries) ==
    IF Len(entries) < QuicksortFrom
    THEN InsertionSort(entries, 1, Len(entries))
    ELSE quicksort(entries, 0, Len(entries) - 1)

(***************************************************************************)
(* readDirOptimized (readdir_linux, readdir_windows)                       *)
(***************************************************************************)
\* a record of syscall.Getdents: inode, name field, whether the name field
\* holds a terminator, type tag, and what os.Lstat answers for the entry
Dirent(ino, name, term, typ, lstat) ==
    [ino |-> ino, name |-> name, term |-> term, typ |-> typ, lstat |-> lstat]

\* the records a directory of the build without drive letters can hold
DirentRecords ==
    { Dirent(1, <<"b">>, TRUE, "DT_REG", "-"),
      Dirent(1, <<"a">>, TRUE, "DT_DIR", "-"),
      Dirent(1, <<"g">>, TRUE, "DT_LNK", "-"),
      Dirent(1, <<"a", "b">>, TRUE, "DT_UNKNOWN", "ModeDir"),
      Dirent(1, <<"B">>, TRUE, "DT_UNKNOWN", "notexist"),
      Dirent(1, <<"c">>, TRUE, "DT_UNKNOWN", "error"),
      Dirent(0, <<"d">>, TRUE, "DT_REG", "-"),
      Dirent(1, <<".">>, TRUE, "DT_DIR", "-"),
      Dirent(1, <<".", ".">>, TRUE, "DT_UNKNOWN", "ModeDir"),
      Dirent(1, <<"h">>, TRUE, "DT_BLK", "-"),
      Dirent(1, <<"i">>, TRUE, "DT_CHR", "-"),
      Dirent(1, <<"j">>, TRUE, "DT_FIFO", "-"),
      Dirent(1, <<"k">>, TRUE, "DT_SOCK", "-"),
      Dirent(1, <<"e">>, FALSE, "DT_REG", "-"),
      Dirent(1, <<"f">>, TRUE, "DT_WHT", "-") }

\* a record of FindFirstFile / FindNextFile: file name and attributes
Win32finddata(name, attrs) == [name |-> name, attrs |-> attrs]

\* the records a directory of the drive-letter build can hold
FindRecords ==
    { Win32finddata(<<".">>, {"DIRECTORY"}),
      Win32finddata(<<".", ".">>, {"DIRECTORY"}),
      Win32finddata(<<"b">>, {}),
      Win32finddata(<<"a">>, {"DIRECTORY"}),
      Win32finddata(<<"a", "b">>, {"REPARSE_POINT"}),
      Win32finddata(<<"B">>, {"DIRECTORY", "REPARSE_POINT"}),
      Win32finddata(<<"c">>, {"ARCHIVE"}) }

\* the native directories that are listed
DirPaths ==
    IF family = "windows"
    THEN {<<"C", ":", "\\">>, <<"C", ":", "\\", "d">>, <<"C", ":", "\\", NUL>>}
    ELSE {<<"/">>, <<"/", "c">>}

\* the type tags the switch on dirent.Type has a case for
KnownTypes ==
    {"DT_REG", "DT_DIR", "DT_LNK", "DT_BLK", "DT_CHR", "DT_FIFO", "DT_SOCK", "DT_UNKNOWN"}

\* the mode of a type tag other than DT_UNKNOWN
ModeOfType(typ) ==
    CASE typ = "DT_REG" -> "regular"
      [] typ = "DT_DIR" -> "ModeDir"
      [] typ = "DT_LNK" -> "ModeSymlink"
      [] typ = "DT_BLK" -> "ModeDevice"
      [] typ = "DT_CHR" -> "ModeDevice|ModeCharDevice"
      [] typ = "DT_FIFO" -> "ModeNamedPipe"
      [] typ = "DT_SOCK" -> "ModeSocket"

\* the mode of the drive-letter build that looks at the reparse point first
ModeOfAttrsReparseFirst(attrs) ==
    IF "REPARSE_POINT" \in attrs THEN "ModeSymlink"
    ELSE IF "DIRECTORY" \in attrs THEN "ModeDir"
    ELSE "regular"

\* the mode of the drive-letter build, from the attributes
ModeOfAttrs(attrs) ==
    IF "DIRECTORY" \in attrs THEN "ModeDir"
    ELSE IF "REPARSE_POINT" \in attrs THEN "ModeSymlink"
    ELSE "regular"

\* the bits of a mode
ModeBits(typ) ==
    CASE typ = "regular" -> {}
      [] typ = "ModeDevice|ModeCharDevice" -> {"ModeDevice", "ModeCharDevice"}
      [] OTHER -> {typ}

\* dirEntry.IsDir
IsDir(d) == "ModeDir" \in ModeBits(d.typ)

\* the decoding loop that asks os.Lstat about the records of a known type too
RECURSIVE DecodeBlockLstatAll(_, _, _, _)
DecodeBlockLstatAll(block, entries, dirPath, lstats) ==
    IF block = <<>> THEN <<entries, <<>>, lstats>>
    ELSE LET dirent == Head(block)
             fullPath == dirPath \o <<"/">> \o dirent.name
         IN IF dirent.ino = 0 THEN DecodeBlockLstatAll(Tail(block), entries, dirPath, lstats)
            ELSE IF ~dirent.term THEN DecodeBlockLstatAll(Tail(block), entries, dirPath, lstats)
            ELSE IF dirent.name = <<".">> \/ dirent.name = <<".", ".">>
                 THEN DecodeBlockLstatAll(Tail(block), entries, dirPath, lstats)
            ELSE IF dirent.typ = "DT_UNKNOWN"
                 THEN IF dirent.lstat = "notexist"
                      THEN DecodeBlockLstatAll(Tail(block), entries, dirPath,
                               Append(lstats, fullPath))
                      ELSE IF dirent.lstat = "error"
                           THEN <<entries, <<dirent>>, Append(lstats, fullPath)>>
                      ELSE DecodeBlockLstatAll(Tail(block),
                               Append(entries, dirEntry(dirent.name, dirent.lstat, dirPath)),
                               dirPath, Append(lstats, fullPath))
            ELSE IF dirent.typ \notin KnownTypes
                 THEN DecodeBlockLstatAll(Tail(block), entries, dirPath, lstats)
            ELSE DecodeBlockLstatAll(Tail(block),
                     Append(entries, dirEntry(dirent.name, ModeOfType(dirent.typ), dirPath)),
                     dirPath, Append(lstats, fullPath))

\* the decoding loop over the records of one block: the entries, the record
\* whose os.Lstat failed (none: <<>>), at which the loop returns, and the
\* paths os.Lstat was called with, after those of lstats
RECURSIVE DecodeBlock(_, _, _, _)
DecodeBlock(block, entries, dirPath, lstats) ==
    IF block = <<>> THEN <<entries, <<>>, lstats>>
    ELSE LET dirent == Head(block)
             fullPath == dirPath \o <<"/">> \o dirent.name
         IN IF dirent.ino = 0 THEN DecodeBlock(Tail(block), entries, dirPath, lstats)
            ELSE IF ~dirent.term THEN DecodeBlock(Tail(block), entries, dirPath, lstats)
            ELSE IF dirent.name = <<".">> \/ dirent.name = <<".", ".">>
                 THEN DecodeBlock(Tail(block), entries, dirPath, lstats)
            ELSE IF dirent.typ = "DT_UNKNOWN"
                 THEN IF dirent.lstat = "notexist"
                      THEN DecodeBlock(Tail(block), entries, dirPath, Append(lstats, fullPath))
                      ELSE IF dirent.lstat = "error"
                           THEN <<entries, <<dirent>>, Append(lstats, fullPath)>>
                      ELSE DecodeBlock(Tail(block),
                               Append(entries, dirEntry(dirent.name, dirent.lstat, dirPath)),
                               dirPath, Append(lstats, fullPath))
            ELSE IF dirent.typ \notin KnownTypes
                 THEN DecodeBlock(Tail(block), entries, dirPath, lstats)
            ELSE DecodeBlock(Tail(block),
                     Append(entries, dirEntry(dirent.name, ModeOfType(dirent.typ), dirPath)),
                     dirPath, lstats)

\* the most records a listed directory delivers
MaxRecords == 3
\* the longest slice given to sortDirEntries on its own
MaxSortLen == 21

\* the blocks of records that can be delivered next: records not delivered yet
BlocksAfter(delivered, pool) ==
    { b \in UNION {[1..k -> pool] : k \in 1..(MaxRecords - Len(delivered))} :
        /\ \A i, j \in 1..Len(b) : i # j => b[i] # b[j]
        /\ \A i \in 1..Len(b) : \A j \in 1..Len(delivered) : b[i] # delivered[j] }

\* the call returns: the deferred close runs if the handle was opened
Returned(closeIt) ==
    [rd EXCEPT !.pc = "returned", !.closes = IF closeIt THEN @ + 1 ELSE @]

\* syscall.Open of readDirOptimized, build without drive letters
ReadDirOpen ==
    /\ family = "unix" /\ Idle /\ rd.pc = "idle"
    /\ \E dirPath \in DirPaths :
        \/ /\ rd' = [rd EXCEPT !.pc = "returned", !.path = dirPath]
           /\ last' = Call("readDirOptimized", "-", dirPath, dirPath, "", <<>>, "open")
        \/ /\ rd' = [rd EXCEPT !.pc = "reading", !.path = dirPath, !.opens = @ + 1]
           /\ last' = last
    /\ UNCHANGED <<family, cwd>>

\* readDirOptimized that forgets the deferred close when os.Lstat fails
ReadDirGetdentsLeak ==
    /\ family = "unix" /\ Idle /\ rd.pc = "reading"
    /\ \/ /\ rd' = Returned(TRUE)
          /\ last' = Call("readDirOptimized", "-", rd.path, rd.path, "", <<>>, "getdents")
       \/ /\ rd' = Returned(TRUE)
          /\ last' = Call("readDirOptimized", "-", rd.path, <<>>, "",
                          sortDirEntries(rd.entries), "")
       \/ \E block \in BlocksAfter(rd.records, DirentRecords) :
            LET decoded == DecodeBlock(block, rd.entries, rd.path, rd.lstats)
            IN IF decoded[2] # <<>>
               THEN /\ rd' = [Returned(FALSE) EXCEPT !.records = @ \o block, !.blocks = @ + 1,
                                               !.lstats = decoded[3]]
                    /\ last' = Call("readDirOptimized", "-", rd.path,
                                    rd.path \o <<"/">> \o decoded[2][1].name, "",
                                    <<>>, "lstat")
               ELSE /\ rd' = [rd EXCEPT !.records = @ \o block, !.blocks = @ + 1,
                                         !.entries = decoded[1], !.lstats = decoded[3]]
                    /\ last' = last
    /\ UNCHANGED <<family, cwd>>

\* readDirOptimized that returns what it decoded when a later read fails
ReadDirGetdentsPartial ==
    /\ family = "unix" /\ Idle /\ rd.pc = "reading"
    /\ \/ /\ rd' = Returned(TRUE)
          /\ last' = Call("readDirOptimized", "-", rd.path, rd.path, "",
                          rd.entries, "getdents")
       \/ /\ rd' = Returned(TRUE)
          /\ last' = Call("readDirOptimized", "-", rd.path, <<>>, "",
                          sortDirEntries(rd.entries), "")
       \/ \E block \in BlocksAfter(rd.records, DirentRecords) :
            LET decoded == DecodeBlock(block, rd.entries, rd.path, rd.lstats)
            IN IF decoded[2] # <<>>
               THEN /\ rd' = [Returned(TRUE) EXCEPT !.records = @ \o block, !.blocks = @ + 1,
                                               !.lstats = decoded[3]]
                    /\ last' = Call("readDirOptimized", "-", rd.path,
                                    rd.path \o <<"/">> \o decoded[2][1].name, "",
                                    <<>>, "lstat")
               ELSE /\ rd' = [rd EXCEPT !.records = @ \o block, !.blocks = @ + 1,
                                         !.entries = decoded[1], !.lstats = decoded[3]]
                    /\ last' = last
    /\ UNCHANGED <<family, cwd>>

\* one turn of the loop on syscall.Getdents: the read fails, or the directory
\* has ended (sort and return), or a block of records is decoded
ReadDirGetdents ==
    /\ family = "unix" /\ Idle /\ rd.pc = "reading"
    /\ \/ /\ rd' = Returned(TRUE)
          /\ last' = Call("readDirOptimized", "-", rd.path, rd.path, "", <<>>, "getdents")
       \/ /\ rd' = Returned(TRUE)
          /\ last' = Call("readDirOptimized", "-", rd.path, <<>>, "",
                          sortDirEntries(rd.entries), "")
       \/ \E block \in BlocksAfter(rd.records, DirentRecords) :
            LET decoded == DecodeBlock(block, rd.entries, rd.path, rd.lstats)
            IN IF decoded[2] # <<>>
               THEN /\ rd' = [Returned(TRUE) EXCEPT !.records = @ \o block, !.blocks = @ + 1,
                                               !.lstats = decoded[3]]
                    /\ last' = Call("readDirOptimized", "-", rd.path,
                                    rd.path \o <<"/">> \o decoded[2][1].name, "",
                                    <<>>, "lstat")
               ELSE /\ rd' = [rd EXCEPT !.records = @ \o block, !.blocks = @ + 1,
                                         !.entries = decoded[1], !.lstats = decoded[3]]
                    /\ last' = last
    /\ UNCHANGED <<family, cwd>>

\* what syscall.FindFirstFile can answer
FindFirstAnswers == {"found", "ERROR_FILE_NOT_FOUND", "ERROR_ACCESS_DENIED"}

\* syscall.UTF16PtrFromString, which fails on a path that holds a NUL, and
\* syscall.FindFirstFile of readDirOptimized, drive-letter build
ReadDirFindFirst ==
    /\ family = "windows" /\ Idle /\ rd.pc = "idle"
    /\ \E dirPath \in DirPaths : \E answer \in FindFirstAnswers :
        IF \E i \in 1..Len(dirPath) : dirPath[i] = NUL
        THEN /\ answer = "found"
             /\ rd' = [rd EXCEPT !.pc = "returned", !.path = dirPath]
             /\ last' = Call("readDirOptimized", "-", dirPath, dirPath, "", <<>>, "readdir")
        ELSE IF answer = "ERROR_FILE_NOT_FOUND"
        THEN /\ rd' = [rd EXCEPT !.pc = "returned", !.path = dirPath]
             /\ last' = Call("readDirOptimized", "-", dirPath, <<>>, answer, <<>>, "")
        ELSE IF answer # "found"
        THEN /\ rd' = [rd EXCEPT !.pc = "returned", !.path = dirPath]
             /\ last' = Call("readDirOptimized", "-", dirPath, dirPath, answer, <<>>,
                             "FindFirstFile")
        ELSE \E first \in FindRecords :
             /\ rd' = [rd EXCEPT !.pc = "reading", !.path = dirPath, !.fd = <<first>>,
                                 !.records = <<first>>, !.blocks = 1, !.opens = @ + 1]
             /\ last' = last
    /\ UNCHANGED <<family, cwd>>

\* the loop body that does not skip "." and ".."
WithFoundKeepDots(entries, fd, dirPath) ==
    Append(entries, dirEntry(fd.name, ModeOfAttrs(fd.attrs), dirPath))

\* the entries after the loop body on the record in fd
WithFound(entries, fd, dirPath) ==
    IF fd.name # <<".">> /\ fd.name # <<".", ".">>
    THEN Append(entries, dirEntry(fd.name, ModeOfAttrs(fd.attrs), dirPath))
    ELSE entries

\* one turn of the loop of the drive-letter build: the record in fd is
\* taken, then syscall.FindNextFile fails, or reports the end (sort and
\* return), or delivers the next record
ReadDirFindNext ==
    /\ family = "windows" /\ Idle /\ rd.pc = "reading"
    /\ LET entries == WithFound(rd.entries, rd.fd[1], rd.path)
       IN \/ /\ rd' = Returned(TRUE)
             /\ last' = Call("readDirOptimized", "-", rd.path, rd.path, "", <<>>,
                             "FindNextFile")
          \/ /\ rd' = [Returned(TRUE) EXCEPT !.entries = entries]
             /\ last' = Call("readDirOptimized", "-", rd.path, <<>>, "",
                             sortDirEntries(entries), "")
          \/ \E block \in BlocksAfter(rd.records, FindRecords) :
                /\ Len(block) = 1
                /\ rd' = [rd EXCEPT !.records = @ \o block, !.blocks = @ + 1, !.entries = entries,
                                    !.fd = block]
                /\ last' = last
    /\ UNCHANGED <<family, cwd>>

\* the names of the slices given to sortDirEntries on its own
SortNames ==
    <<<<"b">>, <<"a">>, <<"a", "b">>, <<"B">>, <<"c">>, <<".", "a">>, <<"b", "a">>>>

\* a slice of n entries: the names taken from SortNames with a stride and a
\* shift, the types alternating
SortInput(n, stride, shift) ==
    [i \in 1..n |->
        dirEntry(SortNames[((stride * i + shift) % Len(SortNames)) + 1],
                 IF i % 2 = 0 THEN "ModeDir" ELSE "regular", <<"/">>)]

SortInputs ==
    { SortInput(n, stride, shift) :
        n \in 0..MaxSortLen, stride \in 0..(Len(SortNames) - 1),
        shift \in 0..(Len(SortNames) - 1) }

\* sortDirEntries applied to a slice; name: the slice, out: the slice after
SortDirEntries ==
    /\ Idle /\ rd.pc = "idle"
    /\ \E entries \in SortInputs :
          last' = Call("sortDirEntries", "-", entries, <<>>, "", sortDirEntries(entries), "")
    /\ UNCHANGED <<family, cwd, rd>>

\* what os.Lstat answers when Info asks
LstatAnswers == {"regular", "ModeDir", "ModeSymlink", "notexist"}

\* entries a caller holds after an enumeration
InfoEntries ==
    { dirEntry(name, typ, dirPath) :
        name \in {<<"b">>, <<"a", "b">>}, typ \in {"regular", "ModeDir"},
        dirPath \in DirPaths }

\* the path dirEntry.Info hands to os.Lstat
InfoPath(d) ==
    d.dirPath \o (IF family = "windows" THEN <<"\\">> ELSE <<"/">>) \o d.name

\* dirEntry.Info: one os.Lstat, whose answer is returned; name: the entry,
\* aux: the path looked up, stat: the answer of os.Lstat, out: the mode of
\* the FileInfo returned
Info ==
    /\ Idle /\ rd.pc = "idle"
    /\ \E d \in InfoEntries : \E answer \in LstatAnswers :
          last' = Call("Info", "-", d, InfoPath(d), answer,
                       IF answer = "notexist" THEN <<>> ELSE <<answer>>,
                       IF answer = "notexist" THEN "lstat" ELSE "")
    /\ UNCHANGED <<family, cwd, rd>>

InitDir ==
    /\ family \in Families
    /\ cwd = [h \in Handles |-> <<"/">>]
    /\ last = NoCall
    /\ rd = NoRead

NextDir ==
    \/ ReadDirOpen \/ ReadDirGetdents \/ ReadDirFindFirst \/ ReadDirFindNext
    \/ SortDirEntries \/ Info \/ Return

SpecDir == InitDir /\ [][NextDir]_vars

(***************************************************************************)
(* The decoding loop of readDirOptimized, byte offsets (readdir_linux)     *)
(***************************************************************************)
\* the most bytes syscall.Getdents puts in the buffer
MaxBuf == 3
\* the largest value found in a Reclen field
MaxReclen == 3
\* the most blocks a directory delivers
MaxBlocks == 2
\* the turns of the inner loop that are followed in one block
MaxTurns == MaxBuf + 1

\* the buffer after a syscall.Getdents that returned n: reclen[o] is the
\* Reclen field of the record read at offset o
Block(n, reclen, blocks) ==
    [pc |-> "decode", n |-> n, reclen |-> reclen, bufp |-> 0, turns |-> 0,
     offsets |-> <<>>, blocks |-> blocks]

\* syscall.Getdents in the outer loop: an error, the end of the directory
\* (n = 0), or n bytes of records, after which bufp := 0
ScanGetdents ==
    /\ family = "unix" /\ Idle /\ rd.pc \in {"idle", "getdents"}
    /\ LET blocks == IF rd.pc = "idle" THEN 0 ELSE rd.blocks
       IN \/ /\ rd' = [rd EXCEPT !.pc = "returned"]
             /\ last' = Call("readDirOptimized", "-", <<"/">>, <<"/">>, "", <<>>, "getdents")
          \/ /\ rd' = [rd EXCEPT !.pc = "returned"]
             /\ last' = Call("readDirOptimized", "-", <<"/">>, <<>>, "", <<>>, "")
          \/ /\ blocks < MaxBlocks
             /\ \E n \in 1..MaxBuf : \E reclen \in [0..(n - 1) -> 0..MaxReclen] :
                   rd' = Block(n, reclen, blocks + 1)
             /\ last' = last
    /\ UNCHANGED <<family, cwd>>

\* one turn of "for bufp < n": the record at bufp is read and bufp moves on
\* by its Reclen
ScanRecord ==
    /\ family = "unix" /\ Idle /\ rd.pc = "decode"
    /\ rd.bufp < rd.n /\ rd.turns < MaxTurns
    /\ rd' = [rd EXCEPT !.bufp = @ + rd.reclen[rd.bufp], !.turns = @ + 1,
                        !.offsets = Append(@, rd.bufp)]
    /\ UNCHANGED <<family, cwd, last>>

\* "for bufp < n" ends: back to syscall.Getdents
ScanBlockEnd ==
    /\ family = "unix" /\ Idle /\ rd.pc = "decode"
    /\ rd.bufp >= rd.n
    /\ rd' = [rd EXCEPT !.pc = "getdents"]
    /\ UNCHANGED <<family, cwd, last>>

InitScan ==
    /\ family = "unix"
    /\ cwd = [h \in Handles |-> <<"/">>]
    /\ last = NoCall
    /\ rd = NoRead

NextScan == ScanGetdents \/ ScanRecord \/ ScanBlockEnd \/ Return

SpecScan == InitScan /\ [][NextScan]_vars

(***************************************************************************)
(* Shapes of paths, as the specification words them                        *)
(***************************************************************************)
Has(s, ch) == \E i \in 1..Len(s) : s[i] = ch

\* "/x" or "/x/...": a canonical path that bears a drive
DriveShaped(p) ==
    /\ Len(p) >= 2 /\ p[1] = "/" /\ p[2] \in LowerLetters \cup UpperLetters
    /\ (Len(p) = 2 \/ p[3] = "/")

\* only the drive, without the slash after it: "/c"
DriveOnly(p) == DriveShaped(p) /\ Len(p) = 2

\* a canonical path: text (valid UTF-8), slashes as separators, no native
\* drive marker
Canonical(p) ==
    ~Has(p, "\\") /\ ~Has(p, ":") /\ \A i \in 1..Len(p) : p[i] \notin HighBytes

\* a well-formed canonical path: its drive letter, if any, is lowercase
WellFormed(p) == Canonical(p) /\ (DriveShaped(p) => p[2] \in LowerLetters)

\* p with its drive letter in lowercase
LowerDrive(p) ==
    IF DriveShaped(p) THEN <<"/", ToLowerChar(p[2])>> \o From(p, 2) ELSE p

\* the shapes of a native path of the drive-letter family
NativeDriveRooted(n) ==
    /\ Len(n) >= 3 /\ IsLetter(n[1]) /\ n[2] = ":" /\ n[3] = "\\"
    /\ ~Has(From(n, 2), ":")
NativeBareDrive(n) == Len(n) = 2 /\ IsLetter(n[1]) /\ n[2] = ":"
NativeUNC(n) == Len(n) >= 2 /\ n[1] = "\\" /\ n[2] = "\\" /\ ~Has(n, ":")
NativeDrivelessAbs(n) ==
    /\ Len(n) >= 1 /\ n[1] = "\\" /\ (Len(n) = 1 \/ n[2] # "\\") /\ ~Has(n, ":")
NativeRelative(n) == (n = <<>> \/ n[1] # "\\") /\ ~Has(n, ":")

\* a driveless-absolute native path whose first component is one letter
NativeLetterFirst(n) ==
    /\ NativeDrivelessAbs(n) /\ Len(n) >= 2 /\ IsLetter(n[2])
    /\ (Len(n) = 2 \/ n[3] = "\\")

ValidNative(n) ==
    /\ ~Has(n, "/")
    /\ \/ NativeDriveRooted(n) \/ NativeBareDrive(n) \/ NativeUNC(n)
       \/ NativeDrivelessAbs(n) \/ NativeRelative(n)

\* n with its drive letter in uppercase
UpperDrive(n) ==
    IF Len(n) >= 2 /\ n[2] = ":" THEN <<ToUpperChar(n[1])>> \o From(n, 1) ELSE n

(***************************************************************************)
(* Round trips                                                             *)
(***************************************************************************)
\* C1 as stated: on the drive-letter family, for every well-formed canonical
\* path p, the drive alone ("/c") included, fromNative(toNative(p)) = p.
C1_RoundTripEveryCanonical ==
    (family = "windows" /\ last.op = "ToNative" /\ WellFormed(last.name))
        => fromNativeWin(last.out[1]) = last.name

\* C1 amended: on the drive-letter family fromNative(toNative(p)) = p for
\* every well-formed canonical path p that is not a drive alone; for a drive
\* alone, "/c", the round trip gives the drive's root "/c/".
C1_RoundTripCanonical ==
    (family = "windows" /\ last.op = "ToNative" /\ WellFormed(last.name))
        => fromNativeWin(last.out[1])
             = IF DriveOnly(last.name) THEN last.name \o <<"/">> ELSE last.name

\* toNative was applied to a well-formed path below a lowercase drive
C1_Witness ==
    /\ family = "windows" /\ last.op = "ToNative" /\ WellFormed(last.name)
    /\ DriveShaped(last.name) /\ Len(last.name) > 3
    /\ last.out[1] = <<"C", ":">> \o FromSlash(From(last.name, 2))

\* C2 as stated: on the drive-letter family, for every valid native path n,
\* a bare drive and a driveless-absolute path with a one-letter first
\* component included, toNative(fromNative(n)) is n with its drive letter
\* in uppercase.
C2_RoundTripEveryNative ==
    (family = "windows" /\ last.op = "FromNative" /\ ValidNative(last.name))
        => toNativeWin(last.out[1]) = UpperDrive(last.name)

\* C2 amended: toNative(fromNative(n)) is n with its drive letter in
\* uppercase for every valid native path n that is neither a bare drive nor
\* a driveless-absolute path whose first component is one letter; a bare
\* drive "X:" comes back as the drive's root "X:\", and "\x" or "\x\rest"
\* comes back as a path on drive X, "X:\" or "X:\rest".
C2_RoundTripNative ==
    (family = "windows" /\ last.op = "FromNative" /\ ValidNative(last.name))
        => toNativeWin(last.out[1])
             = IF NativeBareDrive(last.name)
                 THEN UpperDrive(last.name) \o <<"\\">>
               ELSE IF NativeLetterFirst(last.name)
                 THEN <<ToUpperChar(last.name[2]), ":">>
                        \o (IF Len(last.name) = 2 THEN <<"\\">> ELSE From(last.name, 2))
               ELSE UpperDrive(last.name)

\* fromNative was applied to a path rooted on a lowercase native drive
C2_Witness ==
    /\ family = "windows" /\ last.op = "FromNative"
    /\ NativeDriveRooted(last.name) /\ ~Has(last.name, "/")
    /\ last.name[1] = "c" /\ Len(last.name) > 3
    /\ last.out[1] = <<"/", "c">> \o ToSlash(From(last.name, 2))

\* C3 as stated: on both families joinDrive(splitDrive(p)) is p up to the
\* case of the drive letter, for every shape of p, the drive alone included.
C3_SplitJoinEveryPath ==
    (last.op = "SplitDrive" /\ Canonical(last.name))
        => LowerDrive(joinDrive(last.out[1], last.out[2])) = LowerDrive(last.name)

\* C3 amended: joinDrive(splitDrive(p)) is p with its drive letter in
\* lowercase on the drive-letter family and p itself on the other family,
\* for every p that is not a drive alone; for a drive alone, "/c", the
\* drive-letter family gives "/c/".
C3_SplitJoin ==
    (last.op = "SplitDrive" /\ Canonical(last.name))
        => joinDrive(last.out[1], last.out[2])
             = IF family = "unix" THEN last.name
               ELSE IF DriveOnly(last.name) THEN LowerDrive(last.name) \o <<"/">>
               ELSE LowerDrive(last.name)

\* splitDrive was applied to a path below an uppercase drive and split it
C3_Witness ==
    /\ family = "windows" /\ last.op = "SplitDrive" /\ Canonical(last.name)
    /\ DriveShaped(last.name) /\ Len(last.name) > 3 /\ last.name[2] = "C"
    /\ last.out = <<<<"c">>, From(last.name, 2)>>

\* C4: on the family without drive letters toNative and fromNative return
\* their argument, whatever it is, so the round trip returns it too.
C4_IdentityOnUnix ==
    family = "unix"
        => /\ last.op = "ToNative"
                => (last.out[1] = last.name /\ fromNative(last.out[1]) = last.name)
           /\ last.op = "FromNative"
                => (last.out[1] = last.name /\ toNative(last.out[1]) = last.name)

\* toNative was applied, on that family, to a drive-shaped or UNC path
C4_Witness ==
    /\ family = "unix" /\ last.op = "ToNative"
    /\ (DriveShaped(last.name) \/ isUNC(last.name)) /\ Len(last.name) > 3
    /\ last.out = <<last.name>>

(***************************************************************************)
(* Chdir, Getwd and the working directory                                  *)
(***************************************************************************)
\* the working directories NewFS can give a handle
InitialCwds == {fromNative(d) : d \in OSGetwd}

\* C5: a Chdir whose resolved native path is no existing directory (os.Stat
\* fails, or finds a file) returns "not a directory" and leaves every working
\* directory as it was, whatever calls came before.
C5_ChdirFailureKeepsCwd ==
    [][ (Idle /\ last'.op = "Chdir" /\ last'.stat # "dir")
            => (last'.err = "not a directory" /\ cwd' = cwd) ]_vars

\* a Chdir to a regular file failed on a handle that had changed directory
C5_Witness ==
    /\ last.op = "Chdir" /\ last.stat = "file" /\ last.err = "not a directory"
    /\ cwd[last.h] \notin InitialCwds

\* C6: a successful Chdir(path) makes the stored working directory
\* fromNative(resolve(previous working directory, path)), and Getwd returns
\* the stored working directory as it is, with a nil error.
C6_ChdirStoresCanonical ==
    [][ /\ (Idle /\ last'.op = "Chdir" /\ last'.err = "")
            => cwd'[last'.h] = fromNative(toNativePath(cwd[last'.h], last'.name))
        /\ (Idle /\ last'.op = "Getwd")
            => (last'.out = <<cwd'[last'.h]>> /\ last'.err = "" /\ cwd' = cwd)
      ]_vars

\* a Chdir with a relative argument succeeded below a drive
C6_Witness ==
    /\ family = "windows" /\ last.op = "Chdir" /\ last.err = ""
    /\ last.name # <<>> /\ ~IsAbs(last.name) /\ Canonical(last.name)
    /\ DriveShaped(cwd[last.h]) /\ Len(cwd[last.h]) > 3
    /\ toNativeWin(cwd[last.h]) = last.aux

\* C7: the working directory of a handle changes only in a successful Chdir
\* on that handle; no other method, and no call on another handle, changes it.
C7_OnlyChdirChangesCwd ==
    [][ \A h \in Handles :
            cwd'[h] # cwd[h]
                => (Idle /\ last'.op = "Chdir" /\ last'.h = h /\ last'.err = "") ]_vars

\* the second handle changed directory and the first, which had changed
\* before, kept its own
C7_Witness ==
    /\ last.op = "Chdir" /\ last.err = "" /\ last.h = "fs2"
    /\ cwd["fs1"] # cwd["fs2"] /\ cwd["fs1"] \notin InitialCwds

(***************************************************************************)
(* The path resolver                                                       *)
(***************************************************************************)
\* the methods that only resolve their argument
PathMethods == {"Open", "Stat", "ReadDir"}

\* "//server/share..." with a server and a share
UNCWithShare(p) ==
    /\ Len(p) >= 5 /\ p[1] = "/" /\ p[2] = "/" /\ p[3] # "/"
    /\ \E i \in 4..(Len(p) - 1) : p[i] = "/" /\ p[i + 1] # "/"

\* C8 as stated: on the drive-letter family an absolute input that bears a
\* drive, or a UNC input, resolves to toNative(input) whatever the working
\* directory is.
C8_DriveOrUNCInputAsIs ==
    (family = "windows" /\ last.op \in PathMethods /\ Canonical(last.name)
       /\ (DriveShaped(last.name) \/ UNCWithShare(last.name)))
        => last.aux = toNativeWin(last.name)

\* C9: on the drive-letter family, with a working directory on drive d, an
\* absolute input p that is not UNC and bears no drive resolves to the
\* uppercase d, ":" and p with backslashes; the root "/" gives d's root.
C9_DrivelessInputGetsCwdDrive ==
    (family = "windows" /\ last.op \in PathMethods /\ Canonical(last.name)
       /\ DriveShaped(cwd[last.h])
       /\ IsAbs(last.name) /\ ~isUNC(last.name) /\ ~DriveShaped(last.name))
        => last.aux = <<ToUpperChar(cwd[last.h][2]), ":">> \o FromSlash(last.name)

\* the root was resolved by a handle whose working directory is on drive d
C9_Witness ==
    /\ family = "windows" /\ last.op = "Stat" /\ last.name = <<"/">>
    /\ DriveShaped(cwd[last.h]) /\ cwd[last.h][2] = "d"
    /\ last.aux = <<"D", ":", "\\">>

\* C10: an empty input resolves to toNative(working directory); a non-empty
\* relative input r resolves to toNative(path.Join(working directory, r)),
\* the join being made on the canonical paths: "c" against "/c/d" gives
\* "C:\d\c" on the drive-letter family and "/c/d/c" on the other.
C10_RelativeInputJoinsCwd ==
    (last.op \in PathMethods /\ Canonical(last.name))
        => /\ last.name = <<>> => last.aux = toNative(cwd[last.h])
           /\ (last.name # <<>> /\ ~IsAbs(last.name))
                => last.aux = toNative(Join(cwd[last.h], last.name))
           /\ (last.name = <<"c">> /\ cwd[last.h] = <<"/", "c", "/", "d">>)
                => last.aux = IF family = "windows"
                                THEN <<"C", ":", "\\", "d", "\\", "c">>
                                ELSE <<"/", "c", "/", "d", "/", "c">>

\* "c" was resolved against "/c/d" on the drive-letter family
C10_Witness ==
    /\ family = "windows" /\ last.op = "Open" /\ last.name = <<"c">>
    /\ cwd[last.h] = <<"/", "c", "/", "d">>
    /\ last.aux = <<"C", ":", "\\", "d", "\\", "c">>

(***************************************************************************)
(* The directory enumerator                                                *)
(***************************************************************************)
DotNames == {<<".">>, <<".", ".">>}

\* how many entries bear the name
CountName(entries, name) ==
    Cardinality({i \in 1..Len(entries) : entries[i].name = name})

\* the records that are neither deleted (inode 0, where the build has
\* inodes) nor "." nor ".."
LiveRecords ==
    {i \in 1..Len(rd.records) :
        /\ rd.records[i].name \notin DotNames
        /\ family = "unix" => rd.records[i].ino # 0}

\* a record that does not have the expected shape: no terminator in the name
\* field, or a type tag that is none of the known values
Malformed(dirent) == ~dirent.term \/ dirent.typ \notin KnownTypes

\* the live records that are decoded into an entry: well-formed, and still
\* there when os.Lstat is asked for the type the record does not give
DecodedRecords ==
    {i \in LiveRecords :
        family = "unix" =>
            /\ ~Malformed(rd.records[i])
            /\ rd.records[i].typ = "DT_UNKNOWN" => rd.records[i].lstat # "notexist"}

\* C11 as stated: a call that succeeds returns exactly one entry for each
\* record that is neither deleted nor "." nor "..", and no other entry.
C11_OneEntryPerLiveRecord ==
    (last.op = "readDirOptimized" /\ last.err = "")
        => /\ Len(last.out) = Cardinality(LiveRecords)
           /\ \A i \in LiveRecords : CountName(last.out, rd.records[i].name) = 1

\* C11 amended: a call that succeeds returns exactly one entry for each
\* record that is not deleted, is not "." or "..", has the expected shape
\* and, when its type tag is "unknown", is still there for the metadata
\* lookup; it returns no other entry, however many reads delivered the
\* records.  A record whose type tag is "unknown" and whose file has gone
\* yields no entry.
C11_OneEntryPerDecodedRecord ==
    (last.op = "readDirOptimized" /\ last.err = "")
        => /\ Len(last.out) = Cardinality(DecodedRecords)
           /\ \A i \in DecodedRecords : CountName(last.out, rd.records[i].name) = 1

\* a directory of a file, a subdirectory and a deleted record, delivered in
\* more than one read, gave two entries
C11_Witness ==
    /\ family = "unix" /\ last.op = "readDirOptimized" /\ last.err = ""
    /\ rd.blocks >= 2 /\ Len(rd.records) = 3 /\ Len(last.out) = 2
    /\ \E i \in 1..3 : rd.records[i].ino = 0
    /\ \E i \in 1..2 : last.out[i].typ = "ModeDir"
    /\ \E i \in 1..2 : last.out[i].typ = "regular"

\* ascending by name: no entry is less than the one before it
Sorted(entries) ==
    \A i \in 1..(Len(entries) - 1) : ~Less(entries[i + 1].name, entries[i].name)

\* each entry occurs as often in b as in a
Permutation(a, b) ==
    /\ Len(a) = Len(b)
    /\ \A i \in 1..Len(a) :
          Cardinality({j \in 1..Len(a) : a[j] = a[i]})
              = Cardinality({j \in 1..Len(b) : b[j] = a[i]})

\* C12: the entries a successful readDirOptimized returns are in ascending
\* order of name and are the decoded entries, whatever order the records
\* came in; sortDirEntries gives a sorted permutation of its input below 20
\* entries (insertion sort) and from 20 entries (quicksort).
C12_SortedPermutation ==
    /\ (last.op = "readDirOptimized" /\ last.err = "")
            => (Sorted(last.out) /\ Permutation(rd.entries, last.out))
    /\ last.op = "sortDirEntries"
            => (Sorted(last.out) /\ Permutation(last.name, last.out))

\* quicksort was given a slice that was not in order
C12_Witness ==
    /\ last.op = "sortDirEntries" /\ Len(last.name) >= QuicksortFrom
    /\ ~Sorted(last.name) /\ Sorted(last.out) /\ last.out # last.name

\* C13: while readDirOptimized reads, its handle is open and not yet closed;
\* when it has returned, the handle was closed exactly once if it was
\* opened, on every exit (end of directory, failed read, failed os.Lstat),
\* and never closed if the open failed.
C13_HandleClosedOnce ==
    /\ rd.opens <= 1
    /\ rd.pc = "reading" => (rd.opens = 1 /\ rd.closes = 0)
    /\ rd.pc = "returned" => rd.closes = rd.opens
    /\ (last.op = "readDirOptimized"
          /\ (last.err \in {"open", "readdir", "FindFirstFile"}
                \/ last.stat = "ERROR_FILE_NOT_FOUND"))
            => (rd.opens = 0 /\ rd.closes = 0)
    /\ (last.op = "readDirOptimized"
          /\ last.err \in {"getdents", "lstat", "FindNextFile"})
            => (rd.opens = 1 /\ rd.closes = 1)

\* the call returned on a failed os.Lstat, after a first read, and had
\* closed its handle
C13_Witness ==
    /\ last.op = "readDirOptimized" /\ last.err = "lstat"
    /\ rd.blocks >= 2 /\ rd.opens = 1 /\ rd.closes = 1

\* C14 as stated: a record that does not have the expected shape makes the
\* whole call fail, with an error and no entries.
C14_MalformedRecordFails ==
    (family = "unix" /\ last.op = "readDirOptimized"
       /\ \E i \in 1..Len(rd.records) :
              rd.records[i].ino # 0 /\ Malformed(rd.records[i]))
        => (last.err # "" /\ last.out = <<>>)

\* the call returned without having had a handle
NotOpened == last.op = "readDirOptimized" /\ rd.opens = 0

\* the call returned on a failed read after the first
ReadFailed == last.op = "readDirOptimized" /\ last.err \in {"getdents", "FindNextFile"}

C16_SplitDriveASCIIOnly ==
    (family = "windows" /\ last.op = "SplitDrive")
        => /\ DriveShaped(last.name)
                => last.out = << <<ToLowerChar(last.name[2])>>,
                                 IF Len(last.name) = 2 THEN <<"/">>
                                 ELSE From(last.name, 2) >>
           /\ ~DriveShaped(last.name) => last.out = <<<<>>, last.name>>
           /\ \/ last.out[1] = <<>>
              \/ Len(last.out[1]) = 1 /\ last.out[1][1] \in LowerLetters

\* begins with two slashes
UNCShaped(p) == Len(p) >= 2 /\ p[1] = "/" /\ p[2] = "/"

\* C17: on both families isUNC(p) is true exactly when p has at least two
\* characters and the first two are "/": "//" is UNC-shaped, "/" and "" are
\* not; splitUNC(p) is ("", "", "") for every p that is not UNC-shaped.
C17_IsUNCTwoSlashes ==
    /\ last.op = "IsUNC"
            => /\ last.out[1] = UNCShaped(last.name)
               /\ last.name = <<"/", "/">> => last.out[1] = TRUE
               /\ last.name \in {<<>>, <<"/">>} => last.out[1] = FALSE
    /\ (last.op = "SplitUNC" /\ ~UNCShaped(last.name))
            => last.out = <<<<>>, <<>>, <<>>>>

\* isUNC was applied to "//" on the family without drive letters
C17_Witness ==
    /\ family = "unix" /\ last.op = "IsUNC" /\ last.name = <<"/", "/">>
    /\ last.out = <<TRUE>>

\* the segments of a UNC-shaped path after its two slashes
UNCSegments(p) == SplitSlash(From(p, 2))

\* what follows the share, from its slash on; "/" when nothing follows
AfterShare(p) ==
    IF Len(UNCSegments(p)) <= 2 THEN <<"/">>
    ELSE <<"/">> \o JoinSlash(SubSeq(UNCSegments(p), 3, Len(UNCSegments(p))))

\* C18 as stated: for a UNC-shaped path splitUNC gives the first segment
\* after "//" as server, the next as share, and as rest what follows the
\* share; rest is "/" whenever nothing follows the share, also when the path
\* names only a server.
C18_SplitUNCRestAlwaysSlash ==
    (last.op = "SplitUNC" /\ UNCShaped(last.name))
        => /\ last.out[1] = UNCSegments(last.name)[1]
           /\ last.out[2] = IF Len(UNCSegments(last.name)) >= 2
                              THEN UNCSegments(last.name)[2] ELSE <<>>
           /\ last.out[3] = AfterShare(last.name)

\* C18 amended: as stated, except that for a path that is only "//" and a
\* server, without a slash after the server, share and rest are both empty;
\* "//server/" gives an empty share and the rest "/".
C18_SplitUNC ==
    (last.op = "SplitUNC" /\ UNCShaped(last.name))
        => /\ last.out[1] = UNCSegments(last.name)[1]
           /\ last.out[2] = IF Len(UNCSegments(last.name)) >= 2
                              THEN UNCSegments(last.name)[2] ELSE <<>>
           /\ last.out[3] = IF Len(UNCSegments(last.name)) = 1 THEN <<>>
                            ELSE AfterShare(last.name)

\* splitUNC was applied to a path with server, share and a rest of two
\* segments
C18_Witness ==
    /\ last.op = "SplitUNC"
    /\ last.name = <<"/", "/", "c", "/", "d", "/", "c", "/", "d">>
    /\ last.out = <<<<"c">>, <<"d">>, <<"/", "c", "/", "d">>>>

\* C19 as stated: on the drive-letter family, for every canonical path p and
\* one-letter drive d, setDrive(p, d) has the drive d in lowercase and the
\* remainder StripDrive(p); setDrive(p, "") is StripDrive(p).
C19_SetDriveKeepsEveryRest ==
    (family = "windows" /\ last.op = "SetDrive" /\ Canonical(last.name))
        => IF last.aux = <<>> THEN last.out[1] = StripDrive(last.name)
           ELSE /\ GetDrive(last.out[1]) = ToLower(last.aux)
                /\ StripDrive(last.out[1]) = StripDrive(last.name)

\* C19 amended: the remainder of setDrive(p, d) is StripDrive(p) when that
\* begins with "/", which it does for every absolute p; for a relative or
\* empty p it is "/" followed by p.  The drive of the result is d in
\* lowercase, and setDrive(p, "") is StripDrive(p).
C19_SetDrive ==
    (family = "windows" /\ last.op = "SetDrive" /\ Canonical(last.name))
        => IF last.aux = <<>> THEN last.out[1] = StripDrive(last.name)
           ELSE /\ GetDrive(last.out[1]) = ToLower(last.aux)
                /\ StripDrive(last.out[1])
                     = IF IsAbs(last.name) THEN StripDrive(last.name)
                       ELSE <<"/">> \o last.name

\* a path on drive C was given the drive d
C19_Witness ==
    /\ family = "windows" /\ last.op = "SetDrive" /\ last.aux = <<"d">>
    /\ last.name = <<"/", "C", "/", "1">> /\ last.out = <<<<"/", "d", "/", "1">>>>

\* the non-empty components of p between slashes
ComponentsOf(p) ==
    { SubSeq(p, ij[1], ij[2]) :
        ij \in { x \in (1..Len(p)) \X (1..Len(p)) :
                   /\ x[1] <= x[2]
                   /\ \A k \in x[1]..x[2] : p[k] # "/"
                   /\ (x[1] = 1 \/ p[x[1] - 1] = "/")
                   /\ (x[2] = Len(p) \/ p[x[2] + 1] = "/") } }

\* the text of a component before its first "."
BaseNameOf(comp) ==
    IF ~Has(comp, ".") THEN comp
    ELSE SubSeq(comp, 1, (CHOOSE i \in 1..Len(comp) :
                             comp[i] = "." /\ \A j \in 1..(i - 1) : comp[j] # ".") - 1)

\* C20: on the drive-letter family validatePath(path) returns an error
\* exactly when path holds a NUL, or one of its non-empty components holds
\* one of < > : " | ? * or a character below 32, or has as base name (the
\* text before its first ".") a reserved device name in any letter case, or
\* ends with a space or a period; every other path, the empty one included,
\* is accepted.
C20_ValidatePathRejects ==
    (family = "windows" /\ last.op = "ValidatePath")
        => ( last.err # ""
               <=> \/ Has(last.name, NUL)
                   \/ \E comp \in ComponentsOf(last.name) :
                         \/ \E i \in 1..Len(comp) :
                               comp[i] \in {"<", ">", ":", "\"", "|", "?", "*"}
                                               \cup ControlChars
                         \/ ToLower(BaseNameOf(comp)) \in reservedNames
                         \/ comp[Len(comp)] \in {" ", "."} )

\* a path whose last component is a reserved name in uppercase with an
\* extension was rejected
C20_Witness ==
    /\ family = "windows" /\ last.op = "ValidatePath"
    /\ last.name = <<"/", "c", "/", "C", "O", "N", ".", "t", "x", "t">>
    /\ last.err = "path contains reserved name"

\* the reserved device names, in uppercase
DeviceNames == {ToUpper(name) : name \in reservedNames}

\* C21: on the drive-letter family isReservedName(name) is true exactly when
\* name, cut at its first ".", is in some letter case one of CON, PRN, AUX,
\* NUL, COM1..COM9, LPT1..LPT9: "COM9" and "con.txt" are reserved, "COM10",
\* "CONSOLE" and "" are not; on the other family it is false for every name.
C21_ReservedNames ==
    last.op = "IsReservedName"
        => /\ family = "windows"
                => /\ last.out[1] = (ToUpper(BaseNameOf(last.name)) \in DeviceNames)
                   /\ last.name \in {<<"C", "O", "M", "9">>,
                                     <<"c", "o", "n", ".", "t", "x", "t">>}
                          => last.out[1] = TRUE
                   /\ last.name \in {<<>>, <<"C", "O", "M", "1", "0">>,
                                     <<"C", "O", "N", "S", "O", "L", "E">>}
                          => last.out[1] = FALSE
           /\ family = "unix" => last.out[1] = FALSE

\* a reserved name in mixed case with an extension was recognised
C21_Witness ==
    /\ family = "windows" /\ last.op = "IsReservedName"
    /\ last.name = <<"C", "O", "N", ".", "t", "x", "t">> /\ last.out = <<TRUE>>

(***************************************************************************)
(* The native translator                                                   *)
(***************************************************************************)
\* C25: on the drive-letter family toNative maps "" to ""; a UNC-shaped
\* path to two backslashes and the rest with every "/" as a backslash; a
\* path that bears a drive to the drive letter in uppercase, ":" and the
\* remainder with its separators converted, so that "/c" and "/c/" both
\* give "C:\"; every other path to itself with its separators converted,
\* without a drive it did not have.
C25_ToNativeCases ==
    (family = "windows" /\ last.op = "ToNative")
        => /\ last.out[1]
                = IF last.name = <<>> THEN <<>>
                  ELSE IF UNCShaped(last.name)
                    THEN <<"\\", "\\">> \o FromSlash(From(last.name, 2))
                  ELSE IF DriveShaped(last.name)
                    THEN <<ToUpperChar(last.name[2]), ":">>
                           \o (IF Len(last.name) = 2 THEN <<"\\">>
                               ELSE FromSlash(From(last.name, 2)))
                  ELSE FromSlash(last.name)
           /\ last.name \in {<<"/", "c">>, <<"/", "c", "/">>}
                => last.out[1] = <<"C", ":", "\\">>
           /\ (~DriveShaped(last.name) /\ Len(last.out[1]) >= 2 /\ last.out[1][2] = ":")
                => (Len(last.name) >= 2 /\ last.name[2] = ":")

\* toNative was applied to a UNC-shaped path with a server and a share
C25_Witness ==
    /\ family = "windows" /\ last.op = "ToNative"
    /\ last.name = <<"/", "/", "c", "/">> /\ last.out = <<<<"\\", "\\", "c", "\\">>>>

\* the remainder of a native path after its drive marker, in canonical form
RootedRest(n) ==
    IF Len(n) = 2 \/ n[3] \notin {"\\", "/"} THEN <<"/">> \o ToSlash(From(n, 2))
    ELSE ToSlash(From(n, 2))

\* C26 as stated: on the drive-letter family fromNative maps "" to ""; a
\* path that starts with two backslashes to "//" and the rest with its
\* separators converted; a path that starts with a letter and ":" to "/",
\* the letter in lowercase and the remainder, converted and made to begin
\* with "/"; every other path, also one whose second character is ":" and
\* whose first is no letter, to itself with its separators converted.
C26_FromNativeCases ==
    (family = "windows" /\ last.op = "FromNative")
        => last.out[1]
             = IF last.name = <<>> THEN <<>>
               ELSE IF Len(last.name) >= 2 /\ last.name[1] = "\\" /\ last.name[2] = "\\"
                 THEN <<"/", "/">> \o ToSlash(From(last.name, 2))
               ELSE IF Len(last.name) >= 2 /\ last.name[2] = ":"
                         /\ last.name[1] \in LowerLetters \cup UpperLetters
                 THEN <<"/", ToLowerChar(last.name[1])>> \o RootedRest(last.name)
               ELSE ToSlash(last.name)

HasPrefix(seq, prefix) ==
    Len(seq) >= Len(prefix) /\ SubSeq(seq, 1, Len(prefix)) = prefix

\* a non-empty relative canonical path
RelativeInput(name) == name # <<>> /\ ~IsAbs(name) /\ Canonical(name)

\* C27 as stated: on the drive-letter family a relative input resolved
\* against a working directory on drive d gives a native path on the same
\* drive, one that begins with the uppercase d, ":" and a backslash, also
\* when ".." climbs to the drive's root or past it.
C27_RelativeStaysOnDrive ==
    (family = "windows" /\ last.op \in PathMethods /\ RelativeInput(last.name)
       /\ DriveShaped(cwd[last.h]))
        => HasPrefix(last.aux, <<ToUpperChar(cwd[last.h][2]), ":", "\\">>)

\* a single name without separators or dots
PlainName(name) == name # <<>> /\ Canonical(name) /\ ~Has(name, "/") /\ ~Has(name, ".")

\* C28 as stated: a relative input r resolved against a UNC working
\* directory "//server/share/dir" gives a path that is still UNC, under the
\* same server and share: the directory, a separator and r.
C28_RelativeStaysUNC ==
    (last.op \in PathMethods /\ PlainName(last.name) /\ UNCWithShare(cwd[last.h]))
        => last.aux = IF family = "windows"
                        THEN FromSlash(cwd[last.h] \o <<"/">> \o last.name)
                        ELSE cwd[last.h] \o <<"/">> \o last.name

\* the working directories are absolute, and on the drive-letter family
\* they are canonical text
AbsoluteCwds ==
    \A h \in Handles : IsAbs(cwd[h]) /\ (family = "windows" => Canonical(cwd[h]))

\* C29 as stated: after any sequence of Chdir calls the working directory
\* is still an absolute canonical path, and on the drive-letter family one
\* that carries a drive goes on carrying a drive or becomes UNC, never an
\* absolute path without a drive.
C29_CwdKeepsDrive ==
    /\ []AbsoluteCwds
    /\ [][ \A h \in Handles :
             (family = "windows" /\ DriveShaped(cwd[h]))
                 => (DriveShaped(cwd'[h]) \/ UNCShaped(cwd'[h])) ]_vars

(***************************************************************************)
(* The directory enumerator, continued                                     *)
(***************************************************************************)
\* the record of the call that bears the name
RecordNamed(name) ==
    CHOOSE i \in 1..Len(rd.records) : rd.records[i].name = name

\* C23: the type of each entry comes from the type tag of its record: on
\* the build without drive letters DT_REG gives regular, DT_DIR directory,
\* DT_LNK symlink, DT_BLK device, DT_CHR device and char-device, DT_FIFO
\* named pipe, DT_SOCK socket; on the drive-letter build the directory
\* attribute gives directory, otherwise the reparse-point attribute gives
\* symlink, otherwise regular; IsDir() is true exactly when the type is
\* directory.
C23_TypeFromTag ==
    (last.op = "readDirOptimized" /\ last.err = "")
        => \A k \in 1..Len(last.out) :
             LET d == last.out[k]
                 record == rd.records[RecordNamed(d.name)]
             IN /\ \E i \in 1..Len(rd.records) : rd.records[i].name = d.name
                /\ (family = "unix" /\ record.typ # "DT_UNKNOWN")
                     => /\ d.typ = CASE record.typ = "DT_REG" -> "regular"
                                     [] record.typ = "DT_DIR" -> "ModeDir"
                                     [] record.typ = "DT_LNK" -> "ModeSymlink"
                                     [] record.typ = "DT_BLK" -> "ModeDevice"
                                     [] record.typ = "DT_CHR" -> "ModeDevice|ModeCharDevice"
                                     [] record.typ = "DT_FIFO" -> "ModeNamedPipe"
                                     [] record.typ = "DT_SOCK" -> "ModeSocket"
                        /\ IsDir(d) = (record.typ = "DT_DIR")
                /\ family = "windows"
                     => /\ "DIRECTORY" \in record.attrs => d.typ = "ModeDir"
                        /\ ("DIRECTORY" \notin record.attrs /\ "REPARSE_POINT" \in record.attrs)
                             => d.typ = "ModeSymlink"
                        /\ record.attrs \cap {"DIRECTORY", "REPARSE_POINT"} = {}
                             => d.typ = "regular"
                        /\ IsDir(d) = ("DIRECTORY" \in record.attrs)
                /\ IsDir(d) = (d.typ = "ModeDir")

\* a character device, a directory and a socket were listed together
C23_Witness ==
    /\ family = "unix" /\ last.op = "readDirOptimized" /\ last.err = ""
    /\ Len(last.out) = 3
    /\ \E k \in 1..3 : last.out[k].typ = "ModeDevice|ModeCharDevice" /\ ~IsDir(last.out[k])
    /\ \E k \in 1..3 : last.out[k].typ = "ModeDir" /\ IsDir(last.out[k])
    /\ \E k \in 1..3 : last.out[k].typ = "ModeSocket"

\* how many times os.Lstat was called for the record
Lookups(record) ==
    Cardinality({k \in 1..Len(rd.lstats) :
                    rd.lstats[k] = rd.path \o <<"/">> \o record.name})

\* every entry keeps the directory that was listed; Info looks up that
\* directory, the separator and the name, once per call, and returns what
\* the lookup finds at that time
LazyInfo ==
    /\ last.op = "readDirOptimized"
            => \A k \in 1..Len(last.out) : last.out[k].dirPath = rd.path
    /\ last.op = "Info"
            => /\ last.aux = last.name.dirPath
                               \o (IF family = "windows" THEN <<"\\">> ELSE <<"/">>)
                               \o last.name.name
               /\ last.err = "" => last.out = <<last.stat>>
               /\ rd.lstats = <<>>

\* C24 as stated: the enumerator calls os.Lstat only for the records whose
\* type tag is DT_UNKNOWN, exactly once for each such record and never for
\* a record with a known tag; every entry keeps the directory listed, and
\* the full metadata are looked up only by Info(), at the directory, the
\* separator and the name, nothing being cached.
C24_OneLookupPerUnknownRecord ==
    /\ (last.op = "readDirOptimized" /\ last.err = "")
            => \A i \in 1..Len(rd.records) :
                 Lookups(rd.records[i])
                    = IF family = "unix" /\ rd.records[i].typ = "DT_UNKNOWN" THEN 1 ELSE 0
    /\ LazyInfo

\* a record the loop takes as far as the switch on its type tag: live inode,
\* terminated name, neither "." nor ".."
ReachesSwitch(record) ==
    record.ino # 0 /\ record.term /\ record.name \notin DotNames

\* C24, amended: os.Lstat is called exactly once for each record with the
\* tag DT_UNKNOWN that reaches the switch on the tag, and never for any
\* other record; when the call fails no record is looked up twice and none
\* with a known tag. The drive-letter build looks nothing up. Entries keep
\* the directory listed and Info() looks up on every call.
C24_OneLookupPerUnknownEntry ==
    /\ (last.op = "readDirOptimized" /\ last.err = "")
            => \A i \in 1..Len(rd.records) :
                 Lookups(rd.records[i])
                    = IF /\ family = "unix" /\ rd.records[i].typ = "DT_UNKNOWN"
                         /\ ReachesSwitch(rd.records[i])
                      THEN 1 ELSE 0
    /\ last.op = "readDirOptimized"
            => /\ \A i \in 1..Len(rd.records) :
                    /\ Lookups(rd.records[i]) <= 1
                    /\ (family = "windows" \/ rd.records[i].typ # "DT_UNKNOWN")
                         => Lookups(rd.records[i]) = 0
               /\ \A k \in 1..Len(rd.lstats) : \E i \in 1..Len(rd.records) :
                    rd.lstats[k] = rd.path \o <<"/">> \o rd.records[i].name
    /\ LazyInfo

\* a listing with a known tag, a DT_UNKNOWN entry that was looked up, and
\* ".." with the tag DT_UNKNOWN, which was not
C24_Witness ==
    /\ family = "unix" /\ last.op = "readDirOptimized" /\ last.err = ""
    /\ Len(rd.records) = 3 /\ Len(rd.lstats) = 1 /\ Len(last.out) = 2
    /\ \E i \in 1..3 : rd.records[i].name = <<".", ".">> /\ rd.records[i].typ = "DT_UNKNOWN"
    /\ \E i \in 1..3 : rd.records[i].typ = "DT_DIR"
    /\ rd.lstats[1] = rd.path \o <<"/", "a", "b">>

\* C30 as stated: the decoding loop of the build without drive letters
\* always ends: whatever the Reclen fields hold, zero included, every turn
\* of the inner loop reads its record at an offset in [0, n) and moves the
\* offset on by at least one byte.
C30_DecodeLoopAdvances ==
    [][ (rd.pc = "decode" /\ rd'.pc = "decode" /\ rd'.turns = rd.turns + 1)
            => (rd.bufp \in 0..(rd.n - 1) /\ rd'.bufp >= rd.bufp + 1) ]_vars

====
